---- MODULE Spec2Model ----
(***************************************************************************)
(* Model of the GDPR right-to-be-forgotten demo client: gdpr_demo.py (the  *)
(* SnowflakeGDPRDemo wrapper, run_full_demo_scenario, and the click        *)
(* commands) and setup_snowflake_demo.py (SnowflakeSetup and main).        *)
(*                                                                         *)
(* The warehouse is an external collaborator: every remote statement may   *)
(* succeed with any shape of result, raise an Exception, or be cut short   *)
(* by a KeyboardInterrupt.  The model records what the client does around  *)
(* those outcomes: statements issued, cursors opened and closed, log and   *)
(* print calls of the except clauses, return values, connection lifetime.  *)
(***************************************************************************)
EXTENDS Naturals, Sequences, FiniteSets

VARIABLES
    cmd,        \* the CLI command of this run
    cpc,        \* position inside the command function
    conn,       \* self.connection: "none" | "open" | "closed"
    nconnect,   \* connections created by snowflake.connector.connect
    nclose,     \* calls of connection.close()
    exc,        \* exception propagating out of the current frame
    op,         \* the current invocation of a high-level operation
    inflight,   \* remote statements started and not yet returned
    cursors,    \* cursors opened and not closed
    calls,      \* statements the demo issued in this run, with their counts
    scn,        \* position inside run_full_demo_scenario ("off" outside)
    scnLog,     \* steps of the running scenario: operation and return value
    banner,     \* the COMPLETED SUCCESSFULLY banner was printed
    choices,    \* menu choices read by the interactive loop
    choice,     \* interactive: the last input read at the menu prompt
    leftBy,     \* interactive: what ended the menu loop
    missing,    \* setup main: missing_files
    creds,      \* setup main: which of account, user, password are non-empty
    prompted,   \* setup main: get_snowflake_credentials was called
    attempted,  \* setup main: setup.connect() was called
    sstep,      \* run_full_setup: index of the setup step in progress
    spc,        \* position inside the setup step
    sleft,      \* statements (or verification queries) left in the step
    allPassed,  \* verify_setup: all_passed
    sres,       \* the setup steps run so far, with their return values
    setupRet,   \* return value of run_full_setup
    envWritten, \* the .env file was written
    exitStatus  \* status passed to sys.exit ("none" when not called)

vars == <<cmd, cpc, conn, nconnect, nclose, exc, op, inflight, cursors, calls,
          scn, scnLog, banner, choices, sstep, spc, sleft, allPassed, sres,
          setupRet, envWritten, exitStatus, choice, leftBy, missing, creds,
          prompted, attempted>>

menuVars  == <<choice, leftBy>>
preVars   == <<missing, creds, prompted, attempted>>
demoVars  == <<op, scn, scnLog, banner, choices, calls, menuVars>>
setupVars == <<sstep, spc, sleft, allPassed, sres, setupRet, envWritten, exitStatus>>

(***************************************************************************)
(* Bounds of the model.                                                    *)
(***************************************************************************)
\* menu choices the interactive loop reads before only '0' or Ctrl-C is left
MaxChoices == 1
\* statements _parse_sql_statements yields for one SQL file
MaxStatements == 2

(***************************************************************************)
(* Names.                                                                  *)
(***************************************************************************)
DemoCommands == {"discover", "request_erasure", "full_demo", "dashboard",
                 "verify", "interactive"}
Commands == DemoCommands \cup {"setup"}

\* the remote statements the client issues
RESULT_SCAN   == "SELECT * FROM TABLE(RESULT_SCAN(LAST_QUERY_ID()))"
SP_DISCOVER   == "SP_DISCOVER_CUSTOMER_DATA"
SP_SUBMIT     == "SP_SUBMIT_ERASURE_REQUEST"
SP_PROCESS    == "SP_PROCESS_ERASURE_REQUEST"
SP_VERIFY     == "SP_VERIFY_DELETION"
SP_COORDINATE == "SP_COORDINATE_THIRD_PARTY_DELETION"
FN_STATUS     == "FN_CHECK_GDPR_COMPLIANCE_STATUS"
VW_DASHBOARD  == "VW_GDPR_COMPLIANCE_DASHBOARD"
ERASURE_REQUESTS == "ERASURE_REQUESTS"

Statements == {RESULT_SCAN, SP_DISCOVER, SP_SUBMIT, SP_PROCESS, SP_VERIFY,
               SP_COORDINATE, FN_STATUS, VW_DASHBOARD, ERASURE_REQUESTS}

Operations == {"discover_customer_data", "submit_erasure_request",
               "process_erasure_request", "verify_deletion",
               "get_compliance_dashboard", "get_erasure_requests",
               "coordinate_third_party_deletion",
               "check_customer_compliance_status"}

\* an invocation: its position, the statements it issued, the rows or the
\* message it got, what its except clause did, and what it returned
Idle == [name |-> "none", pc |-> "idle", via |-> "none", phase |-> 0,
         issued |-> <<>>, res |-> "none", msg |-> <<>>, failed |-> FALSE, logged |-> FALSE,
         printed |-> FALSE, out |-> "none", ret |-> "none"]


(***************************************************************************)
(* The database client library as the wrapper uses it.                     *)
(***************************************************************************)
\* (variant: the statement is submitted without waiting for it, as
\* execute_async would)
StatementStillRunning(n) == n

\* cursor.execute / cursor.call block until the statement returned or raised
StatementReturned(n) == n - 1

\* connection.cursor(); cursor.execute(stmt) or cursor.call(stmt, params)
Issue(stmt, via, phase) ==
    /\ op' = [op EXCEPT !.pc = "calling", !.via = via, !.phase = phase,
                        !.issued = Append(@, stmt), !.res = "none"]
    /\ cursors' = cursors + 1
    /\ inflight' = inflight + 1
    /\ calls' = [calls EXCEPT ![stmt] = @ + 1]

\* result sets fetchall() can hand to an operation: rows the operation can
\* process, rows whose processing raises (a missing column, a NULL where a
\* number is formatted, a status that is not JSON), rows reporting an
\* unverified deletion, or no rows
QueryResults(o) ==
    CASE o = "get_erasure_requests"  -> {"ROWS", "EMPTY"}
      [] o = "verify_deletion"       -> {"ROWS", "ROWS_UNVERIFIED", "ROWS_BAD", "EMPTY"}
      [] OTHER                       -> {"ROWS", "ROWS_BAD", "EMPTY"}

\* result messages of the procedures called for their return value, as token
\* sequences; <<>> is a falsy result ("Unknown result")
Messages == { <<"SUCCESS", "ID: ", "REQ-1">>, <<"SUCCESS">>, <<"SUCCESS", "ID: ">>,
              <<"ERROR">>, <<"ERROR", "ID: ", "REQ-1">>, <<>> }

Contains(msg, tok) == \E i \in 1..Len(msg) : msg[i] = tok

\* result_message.split("ID: ")[-1]: the text after the last "ID: "
AfterLastId(msg) ==
    LET last == CHOOSE i \in 1..Len(msg) :
                    /\ msg[i] = "ID: "
                    /\ \A j \in (i+1)..Len(msg) : msg[j] # "ID: "
    IN  IF last = Len(msg) THEN "" ELSE msg[last + 1]

\* Python truthiness of a returned Optional[str]
Truthy(v) == v \notin {"None", ""}

Returned == op.pc = "ret"

OpFrame == UNCHANGED <<cmd, cpc, conn, nconnect, nclose, scn, scnLog, banner,
                       choices, menuVars, setupVars, preVars>>

\* a return: the locals (cursor, results, result_message) are gone
Return(v, o) ==
    op' = [op EXCEPT !.pc = "ret", !.ret = v, !.out = o,
                     !.res = "none", !.msg = <<>>]

\* (variant: the except clause logs and re-raises, as execute_query does)
ExceptReraises(prints, v) ==
    /\ op' = [op EXCEPT !.pc = "ret", !.logged = TRUE]
    /\ exc' = "Exception"

\* an except clause of an operation: self.logger.error, print (or not), return
Except(prints, v) ==
    /\ op' = [op EXCEPT !.pc = "ret", !.logged = TRUE, !.printed = prints,
                        !.ret = v, !.out = "error",
                        !.res = "none", !.msg = <<>>]
    /\ exc' = "none"

\* SnowflakeGDPRDemo.execute_query, from the statement in flight on
execute_query ==
    /\ op.via = "execute_query"
    /\ \/ /\ op.pc = "calling"              \* cursor.execute returned
          /\ inflight' = StatementReturned(inflight)
          /\ op' = [op EXCEPT !.pc = "fetching"]
          /\ UNCHANGED <<cursors, exc>>
       \/ /\ op.pc = "calling"              \* cursor.execute raised: log, raise
          /\ inflight' = StatementReturned(inflight)
          /\ op' = [op EXCEPT !.pc = "except", !.failed = TRUE, !.logged = TRUE]
          /\ UNCHANGED <<cursors, exc>>
       \/ /\ op.pc = "calling"              \* Ctrl-C: not an Exception
          /\ inflight' = StatementReturned(inflight)
          /\ op' = [op EXCEPT !.pc = "ret"]
          /\ exc' = "KeyboardInterrupt"
          /\ UNCHANGED cursors
       \/ /\ op.pc = "fetching"             \* fetchall, cursor.close, return
          /\ \E r \in QueryResults(op.name) :
                op' = [op EXCEPT !.pc = "results", !.res = r]
          /\ cursors' = cursors - 1
          /\ UNCHANGED <<inflight, exc>>
       \/ /\ op.pc = "fetching"             \* fetchall raised: log, raise
          /\ op' = [op EXCEPT !.pc = "except", !.failed = TRUE, !.logged = TRUE]
          /\ UNCHANGED <<inflight, cursors, exc>>
    /\ UNCHANGED calls
    /\ OpFrame

\* the operations that fetch the rows of the procedure they called
Fetches(o) == o \in {"discover_customer_data", "verify_deletion"}

\* the inline cursor use of the operations: cursor.call, fetchall, close
cursor_call ==
    /\ op.via = "cursor"
    /\ \/ /\ op.pc = "calling"              \* cursor.call returned; rows follow
          /\ Fetches(op.name)
          /\ inflight' = StatementReturned(inflight)
          /\ op' = [op EXCEPT !.pc = "fetching"]
          /\ UNCHANGED <<cursors, exc>>
       \/ /\ op.pc = "calling"              \* result = cursor.call(...); close
          /\ ~Fetches(op.name)
          /\ inflight' = StatementReturned(inflight)
          /\ \E m \in Messages : op' = [op EXCEPT !.pc = "results", !.msg = m]
          /\ cursors' = cursors - 1
          /\ UNCHANGED exc
       \/ /\ op.pc = "calling"              \* cursor.call raised
          /\ inflight' = StatementReturned(inflight)
          /\ op' = [op EXCEPT !.pc = "except", !.failed = TRUE]
          /\ UNCHANGED <<cursors, exc>>
       \/ /\ op.pc = "calling"              \* Ctrl-C: not an Exception
          /\ inflight' = StatementReturned(inflight)
          /\ op' = [op EXCEPT !.pc = "ret"]
          /\ exc' = "KeyboardInterrupt"
          /\ UNCHANGED cursors
       \/ /\ op.pc = "fetching"             \* fetchall, cursor.close
          /\ \E r \in QueryResults(op.name) :
                op' = [op EXCEPT !.pc = "results", !.res = r]
          /\ cursors' = cursors - 1
          /\ UNCHANGED <<inflight, exc>>
       \/ /\ op.pc = "fetching"             \* fetchall raised
          /\ op' = [op EXCEPT !.pc = "except", !.failed = TRUE]
          /\ UNCHANGED <<inflight, cursors, exc>>
    /\ UNCHANGED calls
    /\ OpFrame


(***************************************************************************)
(* The high-level operations of SnowflakeGDPRDemo.                         *)
(***************************************************************************)
AtOp(o, pc) == op.name = o /\ op.pc = pc

OpUnchanged == UNCHANGED <<inflight, cursors, calls, exc>>

Session == UNCHANGED <<inflight, cursors, calls>>

discover_customer_data ==
    /\ \/ /\ AtOp("discover_customer_data", "entry")
          /\ Issue(RESULT_SCAN, "execute_query", 1)
          /\ UNCHANGED exc
       \/ /\ AtOp("discover_customer_data", "results") /\ op.phase = 1
          /\ Issue(SP_DISCOVER, "cursor", 2)
          /\ UNCHANGED exc
       \/ /\ AtOp("discover_customer_data", "results") /\ op.phase = 2
          /\ op.res = "ROWS"
          /\ Return("DataFrame", "success")
          /\ OpUnchanged
       \/ /\ AtOp("discover_customer_data", "results") /\ op.phase = 2
          /\ op.res = "ROWS_BAD"             \* df['RECORDS_FOUND'] raises
          /\ op' = [op EXCEPT !.pc = "except"]
          /\ OpUnchanged
       \/ /\ AtOp("discover_customer_data", "results") /\ op.phase = 2
          /\ op.res = "EMPTY"
          /\ Return("EmptyDataFrame", "empty")
          /\ OpUnchanged
       \/ /\ AtOp("discover_customer_data", "except")
          /\ Except(TRUE, "EmptyDataFrame")
          /\ Session
    /\ OpFrame

\* request_id of submit_erasure_request for a result message
RequestId(msg) ==
    IF Contains(msg, "SUCCESS")
    THEN IF Contains(msg, "ID: ") THEN AfterLastId(msg) ELSE "Unknown"
    ELSE "None"

submit_erasure_request ==
    /\ \/ /\ AtOp("submit_erasure_request", "entry")
          /\ Issue(SP_SUBMIT, "cursor", 1)
          /\ UNCHANGED exc
       \/ /\ AtOp("submit_erasure_request", "results")
          /\ Contains(op.msg, "SUCCESS")
          /\ Return(RequestId(op.msg), "success")
          /\ OpUnchanged
       \/ /\ AtOp("submit_erasure_request", "results")
          /\ ~Contains(op.msg, "SUCCESS")
          /\ Return(RequestId(op.msg), "rejected")
          /\ OpUnchanged
       \/ /\ AtOp("submit_erasure_request", "except")
          /\ Except(TRUE, "None")
          /\ Session
    /\ OpFrame

process_erasure_request ==
    /\ \/ /\ AtOp("process_erasure_request", "entry")
          /\ Issue(SP_PROCESS, "cursor", 1)
          /\ UNCHANGED exc
       \/ /\ AtOp("process_erasure_request", "results")
          /\ Contains(op.msg, "SUCCESS")
          /\ Return("True", "success")
          /\ OpUnchanged
       \/ /\ AtOp("process_erasure_request", "results")
          /\ ~Contains(op.msg, "SUCCESS")
          /\ Return("False", "rejected")
          /\ OpUnchanged
       \/ /\ AtOp("process_erasure_request", "except")
          /\ Except(TRUE, "False")
          /\ Session
    /\ OpFrame

verify_deletion ==
    /\ \/ /\ AtOp("verify_deletion", "entry")
          /\ Issue(SP_VERIFY, "cursor", 1)
          /\ UNCHANGED exc
       \/ /\ AtOp("verify_deletion", "results")
          /\ op.res = "ROWS"                 \* all_verified
          /\ Return("DataFrame", "success")
          /\ OpUnchanged
       \/ /\ AtOp("verify_deletion", "results")
          /\ op.res = "ROWS_UNVERIFIED"      \* Verification failed for tables
          /\ Return("DataFrame", "unverified")
          /\ OpUnchanged
       \/ /\ AtOp("verify_deletion", "results")
          /\ op.res = "ROWS_BAD"             \* df['DELETION_VERIFIED'] raises
          /\ op' = [op EXCEPT !.pc = "except"]
          /\ OpUnchanged
       \/ /\ AtOp("verify_deletion", "results")
          /\ op.res = "EMPTY"
          /\ Return("EmptyDataFrame", "empty")
          /\ OpUnchanged
       \/ /\ AtOp("verify_deletion", "except")
          /\ Except(TRUE, "EmptyDataFrame")
          /\ Session
    /\ OpFrame

get_compliance_dashboard ==
    /\ \/ /\ AtOp("get_compliance_dashboard", "entry")
          /\ Issue(VW_DASHBOARD, "execute_query", 1)
          /\ UNCHANGED exc
       \/ /\ AtOp("get_compliance_dashboard", "results")
          /\ op.res = "ROWS"
          /\ Return("dict", "success")
          /\ OpUnchanged
       \/ /\ AtOp("get_compliance_dashboard", "results")
          /\ op.res = "ROWS_BAD"             \* format of a NULL average raises
          /\ op' = [op EXCEPT !.pc = "except"]
          /\ OpUnchanged
       \/ /\ AtOp("get_compliance_dashboard", "results")
          /\ op.res = "EMPTY"
          /\ Return("EmptyDict", "empty")
          /\ OpUnchanged
       \/ /\ AtOp("get_compliance_dashboard", "except")
          /\ Except(TRUE, "EmptyDict")
          /\ Session
    /\ OpFrame

get_erasure_requests ==
    /\ \/ /\ AtOp("get_erasure_requests", "entry")
          /\ Issue(ERASURE_REQUESTS, "execute_query", 1)
          /\ UNCHANGED exc
       \/ /\ AtOp("get_erasure_requests", "results")
          /\ op.res = "ROWS"
          /\ Return("DataFrame", "success")
          /\ OpUnchanged
       \/ /\ AtOp("get_erasure_requests", "results")
          /\ op.res = "EMPTY"
          /\ Return("EmptyDataFrame", "empty")
          /\ OpUnchanged
       \/ /\ AtOp("get_erasure_requests", "except")
          /\ Except(FALSE, "EmptyDataFrame")  \* logger.error only
          /\ Session
    /\ OpFrame

coordinate_third_party_deletion ==
    /\ \/ /\ AtOp("coordinate_third_party_deletion", "entry")
          /\ Issue(SP_COORDINATE, "cursor", 1)
          /\ UNCHANGED exc
       \/ /\ AtOp("coordinate_third_party_deletion", "results")
          /\ Contains(op.msg, "SUCCESS")
          /\ Return("True", "success")
          /\ OpUnchanged
       \/ /\ AtOp("coordinate_third_party_deletion", "results")
          /\ ~Contains(op.msg, "SUCCESS")
          /\ Return("False", "rejected")
          /\ OpUnchanged
       \/ /\ AtOp("coordinate_third_party_deletion", "except")
          /\ Except(TRUE, "False")
          /\ Session
    /\ OpFrame

check_customer_compliance_status ==
    /\ \/ /\ AtOp("check_customer_compliance_status", "entry")
          /\ Issue(FN_STATUS, "execute_query", 1)
          /\ UNCHANGED exc
       \/ /\ AtOp("check_customer_compliance_status", "results")
          /\ op.res = "ROWS"
          /\ Return("dict", "success")
          /\ OpUnchanged
       \/ /\ AtOp("check_customer_compliance_status", "results")
          /\ op.res = "ROWS_BAD"             \* json.loads raises
          /\ op' = [op EXCEPT !.pc = "except"]
          /\ OpUnchanged
       \/ /\ AtOp("check_customer_compliance_status", "results")
          /\ op.res = "EMPTY"
          /\ Return("EmptyDict", "empty")
          /\ OpUnchanged
       \/ /\ AtOp("check_customer_compliance_status", "except")
          /\ Except(TRUE, "EmptyDict")
          /\ Session
    /\ OpFrame


(***************************************************************************)
(* run_full_demo_scenario.  scn = 0 outside the scenario, k in 1..8 while  *)
(* step k runs, 9 once the scenario returned to its caller.                *)
(***************************************************************************)
\* (variant: verification before third-party coordination)
ScenarioStepsSwapped ==
    << "check_customer_compliance_status", "discover_customer_data",
       "submit_erasure_request", "process_erasure_request",
       "verify_deletion", "coordinate_third_party_deletion",
       "check_customer_compliance_status", "get_compliance_dashboard" >>

\* the operations the scenario calls, in the order of its code
ScenarioSteps ==
    << "check_customer_compliance_status", "discover_customer_data",
       "submit_erasure_request", "process_erasure_request",
       "coordinate_third_party_deletion", "verify_deletion",
       "check_customer_compliance_status", "get_compliance_dashboard" >>

\* if discovery_df.empty: return
DiscoveryGate(df) == df = "EmptyDataFrame"
\* (variant: the check of request_id left out)
SubmitGateOpen(id) == FALSE

\* if not request_id: return
SubmitGate(id) == ~Truthy(id)
\* if not processing_success: return
ProcessGate(ok) == ok # "True"

Invoke(o) == op' = [Idle EXCEPT !.name = o, !.pc = "entry"]

\* the log with the return of the step that just ended filled in
Closed(log) ==
    IF log = <<>> THEN log
    ELSE [log EXCEPT ![Len(log)] = [@ EXCEPT !.ret = op.ret, !.out = op.out,
                                              !.issued = op.issued]]

StartStep(k) ==
    /\ scn' = k
    /\ Invoke(ScenarioSteps[k])
    /\ scnLog' = Append(Closed(scnLog),
                        [op |-> ScenarioSteps[k], ret |-> "running",
                         out |-> "running", issued |-> <<>>])

LeaveScenario ==
    /\ scn' = 9
    /\ scnLog' = Closed(scnLog)
    /\ UNCHANGED op

\* the first lines of the scenario, run by the caller's call
EnterScenario ==
    /\ scn' = 1
    /\ Invoke(ScenarioSteps[1])
    /\ scnLog' = << [op |-> ScenarioSteps[1], ret |-> "running",
                     out |-> "running", issued |-> <<>>] >>
    /\ banner' = FALSE

run_full_demo_scenario ==
    /\ scn \in 1..8
    /\ Returned
    /\ \/ /\ exc # "none"                    \* Ctrl-C inside a step propagates
          /\ LeaveScenario
          /\ UNCHANGED banner
       \/ /\ exc = "none" /\ scn = 1
          /\ StartStep(2)
          /\ UNCHANGED banner
       \/ /\ exc = "none" /\ scn = 2
          /\ DiscoveryGate(op.ret)
          /\ LeaveScenario
          /\ UNCHANGED banner
       \/ /\ exc = "none" /\ scn = 2
          /\ ~DiscoveryGate(op.ret)
          /\ StartStep(3)
          /\ UNCHANGED banner
       \/ /\ exc = "none" /\ scn = 3
          /\ SubmitGate(op.ret)
          /\ LeaveScenario
          /\ UNCHANGED banner
       \/ /\ exc = "none" /\ scn = 3
          /\ ~SubmitGate(op.ret)
          /\ StartStep(4)
          /\ UNCHANGED banner
       \/ /\ exc = "none" /\ scn = 4
          /\ ProcessGate(op.ret)
          /\ LeaveScenario
          /\ UNCHANGED banner
       \/ /\ exc = "none" /\ scn = 4
          /\ ~ProcessGate(op.ret)
          /\ StartStep(5)
          /\ UNCHANGED banner
       \/ /\ exc = "none" /\ scn \in 5..7
          /\ StartStep(scn + 1)
          /\ UNCHANGED banner
       \/ /\ exc = "none" /\ scn = 8
          /\ banner' = TRUE
          /\ LeaveScenario
    /\ UNCHANGED <<cmd, cpc, conn, nconnect, nclose, exc, inflight, cursors,
                   calls, choices, menuVars, setupVars, preVars>>


(***************************************************************************)
(* Connection lifetime and the click commands of gdpr_demo.py.             *)
(***************************************************************************)
\* connect(): True with self.connection set, or False with it left None
connect(ok) ==
    /\ conn' = IF ok THEN "open" ELSE conn
    /\ nconnect' = IF ok THEN nconnect + 1 ELSE nconnect

\* (variant: disconnect only when nothing is propagating, as a disconnect
\* after the try block instead of in its finally clause would)
disconnect_after_try ==
    /\ conn' = IF conn # "none" /\ exc = "none" THEN "closed" ELSE conn
    /\ nclose' = IF conn # "none" /\ exc = "none" THEN nclose + 1 ELSE nclose

\* disconnect(): if self.connection: self.connection.close()
disconnect ==
    /\ conn' = IF conn # "none" THEN "closed" ELSE conn
    /\ nclose' = IF conn # "none" THEN nclose + 1 ELSE nclose

CmdFrame == UNCHANGED <<cmd, inflight, cursors, calls, choices, menuVars,
                        setupVars, preVars>>

\* if demo.connect(): try: <one operation> finally: demo.disconnect()
RunOne(c, o) ==
    /\ cmd = c
    /\ \/ /\ cpc = "start"                   \* connect() returned True
          /\ connect(TRUE)
          /\ cpc' = "try"
          /\ UNCHANGED <<nclose, op, exc>>
       \/ /\ cpc = "start"                   \* connect() returned False
          /\ connect(FALSE)
          /\ cpc' = "done"
          /\ UNCHANGED <<nclose, op, exc>>
       \/ /\ cpc = "try"
          /\ Invoke(o)
          /\ cpc' = "body"
          /\ UNCHANGED <<conn, nconnect, nclose, exc>>
       \/ /\ cpc = "body"                    \* finally, on return or Ctrl-C
          /\ Returned
          /\ disconnect
          /\ cpc' = "done"
          /\ UNCHANGED <<nconnect, op, exc>>
    /\ UNCHANGED <<scn, scnLog, banner>>
    /\ CmdFrame

discover == RunOne("discover", "discover_customer_data")

request_erasure == RunOne("request_erasure", "submit_erasure_request")

verify == RunOne("verify", "verify_deletion")

full_demo ==
    /\ cmd = "full_demo"
    /\ \/ /\ cpc = "start"
          /\ connect(TRUE)
          /\ cpc' = "try"
          /\ UNCHANGED <<nclose, op, exc, scn, scnLog, banner>>
       \/ /\ cpc = "start"
          /\ connect(FALSE)
          /\ cpc' = "done"
          /\ UNCHANGED <<nclose, op, exc, scn, scnLog, banner>>
       \/ /\ cpc = "try"
          /\ EnterScenario
          /\ cpc' = "body"
          /\ UNCHANGED <<conn, nconnect, nclose, exc>>
       \/ /\ cpc = "body"                    \* finally, on return or Ctrl-C
          /\ scn = 9
          /\ disconnect
          /\ cpc' = "done"
          /\ UNCHANGED <<nconnect, op, exc, scn, scnLog, banner>>
    /\ CmdFrame

dashboard ==
    /\ cmd = "dashboard"
    /\ \/ /\ cpc = "start"
          /\ connect(TRUE)
          /\ cpc' = "try"
          /\ UNCHANGED <<nclose, op, exc>>
       \/ /\ cpc = "start"
          /\ connect(FALSE)
          /\ cpc' = "done"
          /\ UNCHANGED <<nclose, op, exc>>
       \/ /\ cpc = "try"
          /\ Invoke("get_compliance_dashboard")
          /\ cpc' = "body"
          /\ UNCHANGED <<conn, nconnect, nclose, exc>>
       \/ /\ cpc = "body"                    \* the dashboard returned
          /\ Returned /\ exc = "none"
          /\ Invoke("get_erasure_requests")
          /\ cpc' = "body2"
          /\ UNCHANGED <<conn, nconnect, nclose, exc>>
       \/ /\ cpc = "body"                    \* Ctrl-C in the dashboard: finally
          /\ Returned /\ exc # "none"
          /\ disconnect
          /\ cpc' = "done"
          /\ UNCHANGED <<nconnect, op, exc>>
       \/ /\ cpc = "body2"                   \* finally
          /\ Returned
          /\ disconnect
          /\ cpc' = "done"
          /\ UNCHANGED <<nconnect, op, exc>>
    /\ UNCHANGED <<scn, scnLog, banner>>
    /\ CmdFrame

\* (variant: choice '2' wired to the processing step)
MenuOperationMiswired(n) ==
    CASE n = "1" -> "discover_customer_data"
      [] n = "2" -> "process_erasure_request"
      [] n = "3" -> "get_compliance_dashboard"
      [] n = "4" -> "verify_deletion"
      [] n = "6" -> "check_customer_compliance_status"
      [] n = "7" -> "get_erasure_requests"

\* the operation menu choice n calls (choice '5' runs the scenario instead)
MenuOperation(n) ==
    CASE n = "1" -> "discover_customer_data"
      [] n = "2" -> "submit_erasure_request"
      [] n = "3" -> "get_compliance_dashboard"
      [] n = "4" -> "verify_deletion"
      [] n = "6" -> "check_customer_compliance_status"
      [] n = "7" -> "get_erasure_requests"

\* except KeyboardInterrupt: the one exception the loop's try block catches
CaughtByLoop(e) == e = "KeyboardInterrupt"

interactive ==
    /\ cmd = "interactive"
    /\ \/ /\ cpc = "start"
          /\ connect(TRUE)
          /\ cpc' = "menu"
          /\ UNCHANGED <<nclose, op, exc, scn, scnLog, banner, choices, menuVars>>
       \/ /\ cpc = "start"                   \* print the failure, return
          /\ connect(FALSE)
          /\ cpc' = "done"
          /\ UNCHANGED <<nclose, op, exc, scn, scnLog, banner, choices, menuVars>>
       \/ /\ cpc = "menu"                    \* choice '0': break, finally
          /\ choice' = "0"
          /\ leftBy' = "0"
          /\ disconnect
          /\ cpc' = "done"
          /\ UNCHANGED <<nconnect, op, exc, scn, scnLog, banner, choices>>
       \/ /\ cpc = "menu"                    \* Ctrl-C at input(): except, finally
          /\ choice' = "KeyboardInterrupt"
          /\ leftBy' = "KeyboardInterrupt"
          /\ disconnect
          /\ cpc' = "done"
          /\ UNCHANGED <<nconnect, op, exc, scn, scnLog, banner, choices>>
       \/ /\ cpc = "menu"                    \* EOF at input(): finally, propagates
          /\ choice' = "EOFError"
          /\ leftBy' = "EOFError"
          /\ disconnect
          /\ exc' = "EOFError"
          /\ cpc' = "done"
          /\ UNCHANGED <<nconnect, op, scn, scnLog, banner, choices>>
       \/ /\ cpc = "menu" /\ choices < MaxChoices
          /\ \E n \in {"1", "2", "3", "4", "6", "7"} :
                /\ choice' = n
                /\ Invoke(MenuOperation(n))
          /\ choices' = choices + 1
          /\ cpc' = "action"
          /\ UNCHANGED <<conn, nconnect, nclose, exc, scn, scnLog, banner, leftBy>>
       \/ /\ cpc = "menu" /\ choices < MaxChoices   \* choice '5'
          /\ choice' = "5"
          /\ EnterScenario
          /\ choices' = choices + 1
          /\ cpc' = "action"
          /\ UNCHANGED <<conn, nconnect, nclose, exc, leftBy>>
       \/ /\ cpc = "menu" /\ choices < MaxChoices   \* Invalid choice
          /\ choice' = "invalid"
          /\ choices' = choices + 1
          /\ UNCHANGED <<cpc, conn, nconnect, nclose, op, exc, scn, scnLog,
                         banner, leftBy>>
       \/ /\ cpc = "action"                  \* the action returned: loop again
          /\ Returned /\ scn \in {0, 9} /\ exc = "none"
          /\ op' = Idle
          /\ scn' = 0
          /\ scnLog' = <<>>
          /\ banner' = FALSE
          /\ choice' = "none"
          /\ cpc' = "menu"
          /\ UNCHANGED <<conn, nconnect, nclose, exc, choices, leftBy>>
       \/ /\ cpc = "action"                  \* an exception left the action:
          /\ Returned /\ scn \in {0, 9}      \* except KeyboardInterrupt, finally
          /\ exc # "none"
          /\ exc' = IF CaughtByLoop(exc) THEN "none" ELSE exc
          /\ leftBy' = exc
          /\ disconnect
          /\ cpc' = "done"
          /\ UNCHANGED <<nconnect, op, scn, scnLog, banner, choices, choice>>
    /\ UNCHANGED <<cmd, inflight, cursors, calls, setupVars, preVars>>


(***************************************************************************)
(* setup_snowflake_demo.py: SnowflakeSetup and main.  sstep is the index   *)
(* of the setup step in progress; spc the position inside it.              *)
(***************************************************************************)
\* the entries of verification_queries
NumVerificationQueries == 6

\* setup_steps of run_full_setup
SetupSteps == << "setup_databases_and_schemas", "setup_procedures_and_functions",
                 "setup_security_policies", "setup_demo_data", "verify_setup" >>

\* SnowflakeSetup.connect
setup_connect(ok) ==
    /\ attempted' = TRUE
    /\ conn' = IF ok THEN "open" ELSE conn
    /\ nconnect' = IF ok THEN nconnect + 1 ELSE nconnect

\* SnowflakeSetup.disconnect
setup_disconnect ==
    /\ conn' = IF conn # "none" THEN "closed" ELSE conn
    /\ nclose' = IF conn # "none" THEN nclose + 1 ELSE nclose

SetupFrame == UNCHANGED <<cmd, cpc, conn, nconnect, nclose, demoVars, setupRet,
                          envWritten, exitStatus, sstep, preVars>>

\* execute_sql_file, called by the four setup_* steps with their file
execute_sql_file ==
    /\ cmd = "setup" /\ cpc = "body" /\ sstep \in 1..Len(SetupSteps)
    /\ SetupSteps[sstep] # "verify_setup"
    /\ \/ /\ spc = "entry"                   \* open() raised FileNotFoundError
          /\ sres' = Append(sres, [step |-> SetupSteps[sstep], ret |-> FALSE])
          /\ spc' = "ret"
          /\ UNCHANGED <<sleft, cursors, inflight, exc>>
       \/ /\ spc = "entry"                   \* read or cursor() raised: False
          /\ sres' = Append(sres, [step |-> SetupSteps[sstep], ret |-> FALSE])
          /\ spc' = "ret"
          /\ UNCHANGED <<sleft, cursors, inflight, exc>>
       \/ /\ spc = "entry"                   \* statements parsed, cursor opened
          /\ \E n \in 0..MaxStatements : sleft' = n
          /\ cursors' = cursors + 1
          /\ spc' = "loop"
          /\ UNCHANGED <<sres, inflight, exc>>
       \/ /\ spc = "loop" /\ sleft > 0       \* a statement opening a comment
          /\ sleft' = sleft - 1
          /\ UNCHANGED <<spc, sres, cursors, inflight, exc>>
       \/ /\ spc = "loop" /\ sleft > 0       \* cursor.execute(statement)
          /\ inflight' = inflight + 1
          /\ spc' = "stmt"
          /\ UNCHANGED <<sleft, sres, cursors, exc>>
       \/ /\ spc = "stmt"                    \* executed
          /\ inflight' = StatementReturned(inflight)
          /\ sleft' = sleft - 1
          /\ spc' = "loop"
          /\ UNCHANGED <<sres, cursors, exc>>
       \/ /\ spc = "stmt"                    \* raised: warning, continue
          /\ inflight' = StatementReturned(inflight)
          /\ sleft' = sleft - 1
          /\ spc' = "loop"
          /\ UNCHANGED <<sres, cursors, exc>>
       \/ /\ spc = "stmt"                    \* Ctrl-C: not an Exception
          /\ inflight' = StatementReturned(inflight)
          /\ exc' = "KeyboardInterrupt"
          /\ spc' = "raised"
          /\ UNCHANGED <<sleft, sres, cursors>>
       \/ /\ spc = "loop" /\ sleft = 0       \* cursor.close(); return True
          /\ cursors' = cursors - 1
          /\ sres' = Append(sres, [step |-> SetupSteps[sstep], ret |-> TRUE])
          /\ spc' = "ret"
          /\ UNCHANGED <<sleft, inflight, exc>>
    /\ UNCHANGED allPassed
    /\ SetupFrame

verify_setup ==
    /\ cmd = "setup" /\ cpc = "body" /\ sstep \in 1..Len(SetupSteps)
    /\ SetupSteps[sstep] = "verify_setup"
    /\ \/ /\ spc = "entry"                   \* cursor = self.connection.cursor()
          /\ cursors' = cursors + 1
          /\ sleft' = NumVerificationQueries
          /\ allPassed' = TRUE
          /\ spc' = "loop"
          /\ UNCHANGED <<sres, inflight, exc>>
       \/ /\ spc = "entry"                   \* cursor() raised, outside any try
          /\ exc' = "Exception"
          /\ spc' = "raised"
          /\ UNCHANGED <<sleft, allPassed, sres, cursors, inflight>>
       \/ /\ spc = "loop" /\ sleft > 0       \* cursor.execute(query)
          /\ inflight' = inflight + 1
          /\ spc' = "stmt"
          /\ UNCHANGED <<sleft, allPassed, sres, cursors, exc>>
       \/ /\ spc = "stmt"                    \* executed and fetched
          /\ inflight' = StatementReturned(inflight)
          /\ sleft' = sleft - 1
          /\ spc' = "loop"
          /\ UNCHANGED <<allPassed, sres, cursors, exc>>
       \/ /\ spc = "stmt"                    \* raised: all_passed = False
          /\ inflight' = StatementReturned(inflight)
          /\ sleft' = sleft - 1
          /\ allPassed' = FALSE
          /\ spc' = "loop"
          /\ UNCHANGED <<sres, cursors, exc>>
       \/ /\ spc = "stmt"                    \* Ctrl-C: not an Exception
          /\ inflight' = StatementReturned(inflight)
          /\ exc' = "KeyboardInterrupt"
          /\ spc' = "raised"
          /\ UNCHANGED <<sleft, allPassed, sres, cursors>>
       \/ /\ spc = "loop" /\ sleft = 0       \* cursor.close(); return all_passed
          /\ cursors' = cursors - 1
          /\ sres' = Append(sres, [step |-> SetupSteps[sstep], ret |-> allPassed])
          /\ spc' = "ret"
          /\ UNCHANGED <<sleft, allPassed, inflight, exc>>
    /\ SetupFrame

\* (variant: the return value of the step ignored)
StepNeverFails(r) == FALSE

\* if not step_function(): return False
StepFailed(r) == ~r

run_full_setup ==
    /\ cmd = "setup" /\ cpc = "body" /\ spc = "ret"
    /\ \/ /\ StepFailed(sres[Len(sres)].ret)     \* Setup failed at: step_name
          /\ setupRet' = "False"
          /\ spc' = "done"
          /\ UNCHANGED sstep
       \/ /\ ~StepFailed(sres[Len(sres)].ret)    \* next step of the for loop
          /\ sstep < Len(SetupSteps)
          /\ sstep' = sstep + 1
          /\ spc' = "entry"
          /\ UNCHANGED setupRet
       \/ /\ ~StepFailed(sres[Len(sres)].ret)    \* loop exhausted: return True
          /\ sstep = Len(SetupSteps)
          /\ setupRet' = "True"
          /\ spc' = "done"
          /\ UNCHANGED sstep
    /\ UNCHANGED <<cmd, cpc, conn, nconnect, nclose, exc, inflight, cursors,
                   demoVars, sleft, allPassed, sres, envWritten, exitStatus,
                   preVars>>

\* (variant: .env written whatever run_full_setup returned)
WritesEnvAlways(r) == TRUE

\* if setup.run_full_setup(): write .env
WritesEnv(r) == r = "True"

\* required_files of main
RequiredFiles == {"snowflake_setup.sql", "gdpr_procedures.sql",
                  "security_policies.sql", "demo_data.sql"}

\* (variant: the check of the setup files left out)
FilesNeverMissing(m) == FALSE

\* if missing_files: ... sys.exit(1)
FilesMissing(m) == m # {}

\* all([account, user, password])
AllGiven(c) == c.account /\ c.user /\ c.password

\* if interactive or not all([account, user, password])
NeedsPrompt(opts) == opts.interactive \/ ~AllGiven(opts)

\* the command line: which options are non-empty, and the --interactive flag
Options == [account : BOOLEAN, user : BOOLEAN, password : BOOLEAN,
            interactive : BOOLEAN]

\* what get_snowflake_credentials returns: non-empty or empty answers
Answers == [account : BOOLEAN, user : BOOLEAN, password : BOOLEAN]

main ==
    /\ cmd = "setup"
    /\ \/ /\ cpc = "start"                   \* setup files missing: sys.exit(1)
          /\ \E m \in SUBSET RequiredFiles :
                /\ FilesMissing(m)
                /\ missing' = m
          /\ exitStatus' = "1"
          /\ cpc' = "done"
          /\ UNCHANGED <<conn, nconnect, nclose, exc, sstep, spc, sleft,
                         allPassed, sres, setupRet, envWritten, creds,
                         prompted, attempted>>
       \/ /\ cpc = "start"                   \* all setup files exist
          /\ \E m \in SUBSET RequiredFiles :
                /\ ~FilesMissing(m)
                /\ missing' = m
          /\ cpc' = "credentials"
          /\ UNCHANGED <<conn, nconnect, nclose, exc, setupVars, creds,
                         prompted, attempted>>
       \/ /\ cpc = "credentials"             \* the options suffice
          /\ \E opts \in Options :
                /\ ~NeedsPrompt(opts)
                /\ creds' = [account |-> opts.account, user |-> opts.user,
                             password |-> opts.password]
          /\ cpc' = "connect"
          /\ UNCHANGED <<conn, nconnect, nclose, exc, setupVars, missing,
                         prompted, attempted>>
       \/ /\ cpc = "credentials"             \* prompted; answers complete
          /\ \E opts \in Options : NeedsPrompt(opts)
          /\ prompted' = TRUE
          /\ \E a \in Answers : AllGiven(a) /\ creds' = a
          /\ cpc' = "connect"
          /\ UNCHANGED <<conn, nconnect, nclose, exc, setupVars, missing,
                         attempted>>
       \/ /\ cpc = "credentials"             \* prompted; an answer is empty
          /\ \E opts \in Options : NeedsPrompt(opts)
          /\ prompted' = TRUE
          /\ \E a \in Answers : ~AllGiven(a) /\ creds' = a
          /\ exitStatus' = "1"
          /\ cpc' = "done"
          /\ UNCHANGED <<conn, nconnect, nclose, exc, sstep, spc, sleft,
                         allPassed, sres, setupRet, envWritten, missing,
                         attempted>>
       \/ /\ cpc = "connect"                 \* setup.connect() returned True
          /\ setup_connect(TRUE)
          /\ cpc' = "try"
          /\ UNCHANGED <<nclose, exc, setupVars, missing, creds, prompted>>
       \/ /\ cpc = "connect"                 \* returned False: sys.exit(1)
          /\ setup_connect(FALSE)
          /\ exitStatus' = "1"
          /\ cpc' = "done"
          /\ UNCHANGED <<nclose, exc, sstep, spc, sleft, allPassed, sres,
                         setupRet, envWritten, missing, creds, prompted>>
       \/ /\ cpc = "try"                     \* run_full_setup starts step 1
          /\ sstep' = 1
          /\ spc' = "entry"
          /\ cpc' = "body"
          /\ UNCHANGED <<conn, nconnect, nclose, exc, sleft, allPassed, sres,
                         setupRet, envWritten, exitStatus, preVars>>
       \/ /\ cpc = "body" /\ spc = "done"    \* .env written; finally
          /\ WritesEnv(setupRet)
          /\ envWritten' = TRUE
          /\ setup_disconnect
          /\ cpc' = "done"
          /\ UNCHANGED <<nconnect, exc, sstep, spc, sleft, allPassed, sres,
                         setupRet, exitStatus, preVars>>
       \/ /\ cpc = "body" /\ spc = "done"    \* open('.env') raised; finally
          /\ WritesEnv(setupRet)
          /\ exc' = "OSError"
          /\ setup_disconnect
          /\ cpc' = "done"
          /\ UNCHANGED <<nconnect, setupVars, preVars>>
       \/ /\ cpc = "body" /\ spc = "done"    \* sys.exit(1); finally
          /\ ~WritesEnv(setupRet)
          /\ exitStatus' = "1"
          /\ setup_disconnect
          /\ cpc' = "done"
          /\ UNCHANGED <<nconnect, exc, sstep, spc, sleft, allPassed, sres,
                         setupRet, envWritten, preVars>>
       \/ /\ cpc = "body" /\ spc = "raised"  \* an exception left run_full_setup
          /\ setup_disconnect
          /\ cpc' = "done"
          /\ UNCHANGED <<nconnect, exc, setupVars, preVars>>
    /\ UNCHANGED <<cmd, inflight, cursors, demoVars>>

(***************************************************************************)
(* The program: one run of one command.                                    *)
(***************************************************************************)
Init ==
    /\ cmd \in Commands
    /\ cpc = "start"
    /\ conn = "none"
    /\ nconnect = 0
    /\ nclose = 0
    /\ exc = "none"
    /\ op = Idle
    /\ inflight = 0
    /\ cursors = 0
    /\ calls = [s \in Statements |-> 0]
    /\ scn = 0
    /\ scnLog = <<>>
    /\ banner = FALSE
    /\ choices = 0
    /\ choice = "none"
    /\ leftBy = "none"
    /\ missing = {}
    /\ creds = [account |-> FALSE, user |-> FALSE, password |-> FALSE]
    /\ prompted = FALSE
    /\ attempted = FALSE
    /\ sstep = 0
    /\ spc = "none"
    /\ sleft = 0
    /\ allPassed = TRUE
    /\ sres = <<>>
    /\ setupRet = "none"
    /\ envWritten = FALSE
    /\ exitStatus = "none"

Next ==
    \/ discover
    \/ request_erasure
    \/ full_demo
    \/ dashboard
    \/ verify
    \/ interactive
    \/ run_full_demo_scenario
    \/ discover_customer_data
    \/ submit_erasure_request
    \/ process_erasure_request
    \/ verify_deletion
    \/ get_compliance_dashboard
    \/ get_erasure_requests
    \/ coordinate_third_party_deletion
    \/ check_customer_compliance_status
    \/ execute_query
    \/ cursor_call
    \/ main
    \/ run_full_setup
    \/ execute_sql_file
    \/ verify_setup

Spec == Init /\ [][Next]_vars


(***************************************************************************)
(* Properties.                                                             *)
(***************************************************************************)
Range(q) == { q[i] : i \in 1..Len(q) }

\* the value each operation documents for a failure
FailureValue(o) ==
    CASE o \in {"discover_customer_data", "verify_deletion", "get_erasure_requests"}
             -> "EmptyDataFrame"
      [] o = "submit_erasure_request" -> "None"
      [] o \in {"process_erasure_request", "coordinate_third_party_deletion"}
             -> "False"
      [] o \in {"get_compliance_dashboard", "check_customer_compliance_status"}
             -> "EmptyDict"

\* C1: an operation in which a remote call or a fetch failed returns to its
\* caller without an exception propagating, and returns its failure value
\* (empty DataFrame, None, False or empty dict).
C1_FailureValueReturned ==
    (Returned /\ op.failed) => (exc = "none" /\ op.ret = FailureValue(op.name))

\* C1 witness: SP_SUBMIT_ERASURE_REQUEST raised and submit_erasure_request
\* returned None.
C1_Witness ==
    /\ Returned /\ op.failed
    /\ op.name = "submit_erasure_request"
    /\ op.issued = <<SP_SUBMIT>>
    /\ op.ret = "None"

\* C2: when an operation returns after a remote call or fetch of it failed,
\* the failure has been both logged and printed to the user.
C2_FailureLoggedAndPrinted ==
    (Returned /\ op.failed) => (op.logged /\ op.printed)

\* C3: at most one connection is ever created, and at most one remote
\* statement is in flight at any moment.
C3_OneConnectionOneStatement ==
    nconnect <= 1 /\ inflight <= 1

\* C3 witness: the second statement of an operation is in flight, after the
\* first one returned.
C3_Witness ==
    /\ op.name = "discover_customer_data"
    /\ op.pc = "calling"
    /\ op.issued = <<RESULT_SCAN, SP_DISCOVER>>
    /\ inflight = 1

NothingIssued == \A s \in Statements : calls[s] = 0

\* C4: in a command of gdpr_demo the connection is never closed more than
\* once nor without having been opened; when the command has ended after a
\* successful connect() the connection was closed exactly once, whatever
\* happened in between; after a failed connect() nothing was closed, no
\* operation was invoked and no statement issued.
C4_ConnectionClosedOnce ==
    cmd \in DemoCommands =>
        /\ nclose <= nconnect
        /\ nclose <= 1
        /\ (cpc = "done" /\ nconnect = 1) => (nclose = 1 /\ conn = "closed")
        /\ (cpc = "done" /\ nconnect = 0) =>
               (nclose = 0 /\ conn = "none" /\ NothingIssued
                /\ op.pc = "idle" /\ scn = 0)

\* C4 witness: a command ended by a KeyboardInterrupt that propagates out of
\* it, with its connection closed once.
C4_Witness ==
    /\ cmd \in DemoCommands
    /\ cpc = "done"
    /\ exc = "KeyboardInterrupt"
    /\ nconnect = 1 /\ nclose = 1

\* the order of the scenario's steps as the claim states it
ClaimedOrder ==
    << "check_customer_compliance_status", "discover_customer_data",
       "submit_erasure_request", "process_erasure_request",
       "coordinate_third_party_deletion", "verify_deletion",
       "check_customer_compliance_status", "get_compliance_dashboard" >>

\* C5: the steps the scenario has started are a prefix of the fixed order
\* (status, discovery, submit, process, third-party, verify, status,
\* dashboard), so each runs at most once and the status check twice; every
\* step but the last started one has returned, and the operation running is
\* the last started one.
C5_ScenarioOrder ==
    LET n == Len(scnLog) IN
    /\ n <= Len(ClaimedOrder)
    /\ \A i \in 1..n : scnLog[i].op = ClaimedOrder[i]
    /\ \A i \in 1..n : i < n => scnLog[i].ret # "running"
    /\ scn \in 1..8 => (n = scn /\ op.name = scnLog[n].op)

\* C5 witness: a scenario that ran all eight steps and returned.
C5_Witness ==
    /\ scn = 9
    /\ Len(scnLog) = 8
    /\ exc = "none"

\* the statements step i of the scenario has issued
StepIssued(i) ==
    IF i = Len(scnLog) /\ scn \in 1..8 THEN Range(op.issued)
    ELSE Range(scnLog[i].issued)

\* some step before step i was operation o and returned a value in vs
EarlierReturned(i, o, vs) ==
    \E j \in 1..(i - 1) : scnLog[j].op = o /\ scnLog[j].ret \in vs

C7_BannerOnlyAfterSuccess ==
    banner => \A i \in 1..Len(scnLog) : scnLog[i].out = "success"

\* the one statement each operation is named for
OwnStatement(o) ==
    CASE o = "discover_customer_data"           -> SP_DISCOVER
      [] o = "submit_erasure_request"           -> SP_SUBMIT
      [] o = "process_erasure_request"          -> SP_PROCESS
      [] o = "verify_deletion"                  -> SP_VERIFY
      [] o = "get_compliance_dashboard"         -> VW_DASHBOARD
      [] o = "get_erasure_requests"             -> ERASURE_REQUESTS
      [] o = "coordinate_third_party_deletion"  -> SP_COORDINATE
      [] o = "check_customer_compliance_status" -> FN_STATUS

\* C8: an operation that returned has issued exactly one remote statement,
\* its own; discover_customer_data always calls SP_DISCOVER_CUSTOMER_DATA and
\* nothing before it.
C8_OneStatementPerOperation ==
    (Returned /\ exc = "none") => op.issued = << OwnStatement(op.name) >>

\* the order of the setup steps as the claim states it
ClaimedSetupOrder ==
    << "setup_databases_and_schemas", "setup_procedures_and_functions",
       "setup_security_policies", "setup_demo_data", "verify_setup" >>

\* C9: the setup steps run in the order databases/schemas, procedures,
\* security policies, demo data, verification; every step run before
\* another returned True, so nothing follows a step that returned False;
\* run_full_setup returns False only right after such a step, and True if
\* and only if all five steps returned True.
C9_SetupOrder ==
    LET n == Len(sres) IN
    /\ n <= Len(ClaimedSetupOrder)
    /\ \A i \in 1..n : sres[i].step = ClaimedSetupOrder[i]
    /\ \A i \in 1..n : i < n => sres[i].ret
    /\ setupRet # "none" => spc = "done"
    /\ spc = "done" =>
           /\ setupRet \in {"True", "False"}
           /\ setupRet = "True" <=> (n = 5 /\ \A i \in 1..n : sres[i].ret)
           /\ setupRet = "False" => ~sres[n].ret

\* C9 witness: the security-policies step returned False and run_full_setup
\* returned False after three steps.
C9_Witness ==
    /\ spc = "done"
    /\ setupRet = "False"
    /\ Len(sres) = 3
    /\ sres[3].step = "setup_security_policies"

\* C10: the .env file is written only after run_full_setup returned True;
\* when it returned False the command ends with nothing written and exit
\* status 1; and once connect() succeeded the connection has been closed by
\* disconnect() when the command ends.
C10_EnvOnlyAfterSuccess ==
    cmd = "setup" =>
        /\ envWritten => setupRet = "True"
        /\ (cpc = "done" /\ setupRet = "False") =>
               (~envWritten /\ exitStatus = "1")
        /\ (cpc = "done" /\ nconnect = 1) => (nclose = 1 /\ conn = "closed")

\* C10 witness: run_full_setup returned False; the command ended with exit
\* status 1, no .env and the connection closed.
C10_Witness ==
    /\ cmd = "setup"
    /\ cpc = "done"
    /\ setupRet = "False"
    /\ exitStatus = "1"
    /\ ~envWritten
    /\ nclose = 1


\* C11: in the setup command, when a required SQL file is missing the
\* command has ended with exit status 1 without prompting for credentials,
\* without calling connect() and without executing any SQL; and when
\* account, user or password is empty after the credentials were collected
\* it has ended with exit status 1 without calling connect().
C11_ExitBeforeConnect ==
    cmd = "setup" =>
        /\ missing # {} =>
               /\ cpc = "done" /\ exitStatus = "1"
               /\ ~prompted /\ ~attempted
               /\ nconnect = 0 /\ conn = "none"
               /\ sstep = 0 /\ inflight = 0 /\ cursors = 0
        /\ (cpc \notin {"start", "credentials"} /\ ~AllGiven(creds)) =>
               /\ cpc = "done" /\ exitStatus = "1"
               /\ ~attempted
               /\ nconnect = 0 /\ conn = "none"
               /\ sstep = 0 /\ inflight = 0 /\ cursors = 0

\* C11 witness: all files exist, the user was prompted and left the password
\* empty; the command ended with exit status 1 and no connection attempt.
C11_Witness ==
    /\ cmd = "setup"
    /\ cpc = "done"
    /\ missing = {}
    /\ prompted
    /\ creds = [account |-> TRUE, user |-> TRUE, password |-> FALSE]
    /\ exitStatus = "1"
    /\ ~attempted


\* C12: once the interactive command has connected and ended, it left the
\* menu loop on choice '0' or on a keyboard interrupt, never because a remote
\* call of a chosen action failed, and the connection has been closed once.
C12_LoopLeftOnlyOnExit ==
    (cmd = "interactive" /\ cpc = "done" /\ nconnect = 1) =>
        /\ leftBy \in {"0", "KeyboardInterrupt"}
        /\ exc = "none"
        /\ conn = "closed" /\ nclose = 1

\* C13: an operation that has returned, by its success path or by its
\* failure path, has closed every cursor it opened, and at no moment is more
\* than one cursor open on the connection.
C13_CursorsClosed ==
    /\ (cmd # "setup" /\ Returned /\ exc = "none") => cursors = 0
    /\ (cmd = "setup" /\ spc = "idle") => cursors = 0
    /\ cursors <= 1

\* the commands that read only
ReadOnlyCommands == {"discover", "dashboard", "verify"}

\* the procedures that modify data
Modifying == {SP_SUBMIT, SP_PROCESS, SP_COORDINATE}

\* the part of C14 that does not count the submissions of request-erasure
ReachableOnlyAsMeant ==
    /\ cmd \in ReadOnlyCommands =>
           /\ \A s \in Modifying : calls[s] = 0
           /\ op.name \notin {"submit_erasure_request", "process_erasure_request",
                              "coordinate_third_party_deletion"}
    /\ cmd = "request_erasure" =>
           /\ calls[SP_PROCESS] = 0
           /\ op.name # "process_erasure_request"
    /\ op.name = "process_erasure_request" =>
           /\ scn \in 1..9
           /\ ~Returned => scn \in 1..8
           /\ cmd = "full_demo" \/ (cmd = "interactive" /\ choice = "5")
    /\ calls[SP_PROCESS] > 0 => cmd \in {"full_demo", "interactive"}

\* C14 as stated: discover, dashboard and verify never invoke a modifying
\* procedure; request-erasure never invokes SP_PROCESS_ERASURE_REQUEST and,
\* once it has ended, has invoked SP_SUBMIT_ERASURE_REQUEST exactly once;
\* SP_PROCESS_ERASURE_REQUEST is invoked only inside run_full_demo_scenario.
C14_SubmitExactlyOnce ==
    /\ ReachableOnlyAsMeant
    /\ cmd = "request_erasure" =>
           /\ calls[SP_SUBMIT] <= 1
           /\ cpc = "done" => calls[SP_SUBMIT] = 1

\* C14 amended: as C14, but request-erasure has invoked
\* SP_SUBMIT_ERASURE_REQUEST exactly once when connect() succeeded and not at
\* all when connect() failed.
C14_SubmitOncePerConnection ==
    /\ ReachableOnlyAsMeant
    /\ cmd = "request_erasure" =>
           /\ calls[SP_SUBMIT] <= 1
           /\ cpc = "done" => calls[SP_SUBMIT] = nconnect
           /\ cpc \in {"start", "try"} => calls[SP_SUBMIT] = 0

\* C14 witness: request-erasure connected, submitted once and disconnected.
C14_Witness ==
    /\ cmd = "request_erasure"
    /\ cpc = "done"
    /\ nconnect = 1 /\ nclose = 1
    /\ calls[SP_SUBMIT] = 1
    /\ calls[SP_PROCESS] = 0

====
